---- MODULE Spec2Model ----
(***************************************************************************)
(* Model of src/src/Arduino/motor_controller/motor_controller.ino: the     *)
(* serial command loop and the H-bridge actuation routine setMotor.        *)
(*                                                                         *)
(* A String is a sequence of one-character strings.  Every pin write of    *)
(* setMotor is one step.  The host, the wire and the UART transmitter are  *)
(* the environment.                                                        *)
(***************************************************************************)
EXTENDS Integers, Sequences, FiniteSets, TLC

(***************************************************************************)
(* Pin numbers (lines 2..24).                                              *)
(***************************************************************************)
FL_PLUS_PIN  == 52
FL_MINUS_PIN == 53
FL_EN_PIN    == 2
FR_PLUS_PIN  == 50
FR_MINUS_PIN == 51
FR_EN_PIN    == 3
RL_PLUS_PIN  == 48
RL_MINUS_PIN == 49
RL_EN_PIN    == 4
RR_PLUS_PIN  == 46
RR_MINUS_PIN == 47
RR_EN_PIN    == 5
V_PLUS_PIN   == 44
V_MINUS_PIN  == 45
V_EN_PIN     == 6
V2_PLUS_PIN  == 42
V2_MINUS_PIN == 43
V2_EN_PIN    == 7

\* Digital levels; analogWrite(pin, 0) is the LOW level of an enable pin.
LOW  == 0
HIGH == 1

\* int values[10]
NumValues == 10

\* upper limit of constrain(speed, 0, 255)
PwmMax == 255

\* the array pins[] of setup()
SetupPins ==
  << FL_PLUS_PIN, FL_MINUS_PIN, FL_EN_PIN,
     FR_PLUS_PIN, FR_MINUS_PIN, FR_EN_PIN,
     RL_PLUS_PIN, RL_MINUS_PIN, RL_EN_PIN,
     RR_PLUS_PIN, RR_MINUS_PIN, RR_EN_PIN,
     V_PLUS_PIN,  V_MINUS_PIN,  V_EN_PIN,
     V2_PLUS_PIN, V2_MINUS_PIN, V2_EN_PIN >>

PinSet == { SetupPins[i] : i \in 1..Len(SetupPins) }

\* Calls with the value indices of the two front channels exchanged
CallsFrontSwapped ==
  << [plusPin |-> FL_PLUS_PIN, minusPin |-> FL_MINUS_PIN, enPin |-> FL_EN_PIN, dirIdx |-> 2, spdIdx |-> 3],
     [plusPin |-> FR_PLUS_PIN, minusPin |-> FR_MINUS_PIN, enPin |-> FR_EN_PIN, dirIdx |-> 0, spdIdx |-> 1],
     [plusPin |-> RL_PLUS_PIN, minusPin |-> RL_MINUS_PIN, enPin |-> RL_EN_PIN, dirIdx |-> 4, spdIdx |-> 5],
     [plusPin |-> RR_PLUS_PIN, minusPin |-> RR_MINUS_PIN, enPin |-> RR_EN_PIN, dirIdx |-> 6, spdIdx |-> 7],
     [plusPin |-> V_PLUS_PIN,  minusPin |-> V_MINUS_PIN,  enPin |-> V_EN_PIN,  dirIdx |-> 8, spdIdx |-> 9],
     [plusPin |-> V2_PLUS_PIN, minusPin |-> V2_MINUS_PIN, enPin |-> V2_EN_PIN, dirIdx |-> 8, spdIdx |-> 9] >>

\* Calls with the sixth call passing the rear-right pair instead of the
\* vertical one
CallsMirrorOffByOne ==
  << [plusPin |-> FL_PLUS_PIN, minusPin |-> FL_MINUS_PIN, enPin |-> FL_EN_PIN, dirIdx |-> 0, spdIdx |-> 1],
     [plusPin |-> FR_PLUS_PIN, minusPin |-> FR_MINUS_PIN, enPin |-> FR_EN_PIN, dirIdx |-> 2, spdIdx |-> 3],
     [plusPin |-> RL_PLUS_PIN, minusPin |-> RL_MINUS_PIN, enPin |-> RL_EN_PIN, dirIdx |-> 4, spdIdx |-> 5],
     [plusPin |-> RR_PLUS_PIN, minusPin |-> RR_MINUS_PIN, enPin |-> RR_EN_PIN, dirIdx |-> 6, spdIdx |-> 7],
     [plusPin |-> V_PLUS_PIN,  minusPin |-> V_MINUS_PIN,  enPin |-> V_EN_PIN,  dirIdx |-> 8, spdIdx |-> 9],
     [plusPin |-> V2_PLUS_PIN, minusPin |-> V2_MINUS_PIN, enPin |-> V2_EN_PIN, dirIdx |-> 6, spdIdx |-> 7] >>

\* The six setMotor calls of loop(), in program order: the pins each call
\* passes and the indices (0-based, as in the source) of its two values.
Calls ==
  << [plusPin |-> FL_PLUS_PIN, minusPin |-> FL_MINUS_PIN, enPin |-> FL_EN_PIN, dirIdx |-> 0, spdIdx |-> 1],
     [plusPin |-> FR_PLUS_PIN, minusPin |-> FR_MINUS_PIN, enPin |-> FR_EN_PIN, dirIdx |-> 2, spdIdx |-> 3],
     [plusPin |-> RL_PLUS_PIN, minusPin |-> RL_MINUS_PIN, enPin |-> RL_EN_PIN, dirIdx |-> 4, spdIdx |-> 5],
     [plusPin |-> RR_PLUS_PIN, minusPin |-> RR_MINUS_PIN, enPin |-> RR_EN_PIN, dirIdx |-> 6, spdIdx |-> 7],
     [plusPin |-> V_PLUS_PIN,  minusPin |-> V_MINUS_PIN,  enPin |-> V_EN_PIN,  dirIdx |-> 8, spdIdx |-> 9],
     [plusPin |-> V2_PLUS_PIN, minusPin |-> V2_MINUS_PIN, enPin |-> V2_EN_PIN, dirIdx |-> 8, spdIdx |-> 9] >>

NumCalls == Len(Calls)

(***************************************************************************)
(* Characters and the library string routines the loop uses.               *)
(***************************************************************************)
NL == "\n"
CR == "\r"
SP == " "

Digits == <<"0", "1", "2", "3", "4", "5", "6", "7", "8", "9">>

IsDigit(c) == \E d \in 1..10 : Digits[d] = c

DigitVal(c) == (CHOOSE d \in 1..10 : Digits[d] = c) - 1

\* isspace() over the characters that occur on the link
IsSpace(c) == c \in {SP, CR, NL, "\t"}

RECURSIVE DropLeadingSpace(_)
DropLeadingSpace(s) ==
  IF s # <<>> /\ IsSpace(Head(s)) THEN DropLeadingSpace(Tail(s)) ELSE s

RECURSIVE DropTrailingSpace(_)
DropTrailingSpace(s) ==
  IF s # <<>> /\ IsSpace(s[Len(s)])
    THEN DropTrailingSpace(SubSeq(s, 1, Len(s) - 1))
    ELSE s

\* String::trim()
Trim(s) == DropTrailingSpace(DropLeadingSpace(s))

\* startsWith that compares the first character only
StartsWithM(s) == Len(s) >= 1 /\ s[1] = "M"

\* String::startsWith("M,")
StartsWithTag(s) == Len(s) >= 2 /\ s[1] = "M" /\ s[2] = ","

\* strtok(buf, ",") and the strtok(NULL, ",") calls after it: the sequence of
\* tokens they return one after the other.  strtok skips every run of
\* delimiters, so a token is a maximal non-empty run of non-comma characters.
RECURSIVE StrTok(_, _)
StrTok(s, cur) ==
  IF s = <<>>
    THEN IF cur = <<>> THEN <<>> ELSE <<cur>>
    ELSE IF Head(s) = ","
      THEN IF cur = <<>> THEN StrTok(Tail(s), <<>>)
                         ELSE <<cur>> \o StrTok(Tail(s), <<>>)
      ELSE StrTok(Tail(s), Append(cur, Head(s)))

\* the digit loop of atoi()
RECURSIVE AtoiDigits(_, _)
AtoiDigits(s, acc) ==
  IF s # <<>> /\ IsDigit(Head(s))
    THEN AtoiDigits(Tail(s), acc * 10 + DigitVal(Head(s)))
    ELSE acc

\* atoi(): leading white space, an optional sign, then digits up to the
\* first character that is not a digit; 0 when there is no digit.
Atoi(tok) ==
  LET t == DropLeadingSpace(tok) IN
  IF t # <<>> /\ Head(t) = "-" THEN 0 - AtoiDigits(Tail(t), 0)
  ELSE IF t # <<>> /\ Head(t) = "+" THEN AtoiDigits(Tail(t), 0)
  ELSE AtoiDigits(t, 0)

\* The while loop of lines 53..56.  toks are the tokens strtok has still to
\* return, vals the values stored so far; the loop stops when strtok returns
\* NULL or when idx reaches 10.
RECURSIVE TokenLoop(_, _)
TokenLoop(toks, vals) ==
  IF toks # <<>> /\ Len(vals) < NumValues
    THEN TokenLoop(Tail(toks), Append(vals, Atoi(Head(toks))))
    ELSE vals

\* the split with the tag counted as the first value
ParseValuesCountingTag(ln) ==
  CHOOSE vals \in { TokenLoop(toks, <<>>) : toks \in {StrTok(ln, <<>>)} } : TRUE

\* lines 51..57: the values array as far as it was filled; idx is its length.
\* The strtok call of line 52 returns the tag, the loop takes the tokens
\* after it.
ParseValues(ln) ==
  CHOOSE vals \in { TokenLoop(Tail(toks), <<>>) : toks \in {StrTok(ln, <<>>)} } : TRUE

\* Serial.readStringUntil('\n'): the characters up to the terminator, which
\* is consumed and not returned; without a terminator in the buffer the read
\* ends on its timeout and returns what has arrived.
RECURSIVE UntilNL(_)
UntilNL(s) ==
  IF s = <<>> \/ Head(s) = NL THEN <<>> ELSE <<Head(s)>> \o UntilNL(Tail(s))

HasNL(s) == \E i \in 1..Len(s) : s[i] = NL

ReadStringUntil(buf) == UntilNL(buf)

AfterRead(buf) ==
  IF HasNL(buf) THEN SubSeq(buf, Len(UntilNL(buf)) + 2, Len(buf)) ELSE <<>>

(***************************************************************************)
(* setMotor (lines 81..97), one operator per pin write.                    *)
(***************************************************************************)
\* constrain without its upper limit
ConstrainNoUpper(x, lo, hi) == IF x < lo THEN lo ELSE x

\* constrain(x, lo, hi)
Constrain(x, lo, hi) == IF x < lo THEN lo ELSE IF x > hi THEN hi ELSE x

\* the plus level without the stop branch of line 82
PlusLevelNoStop(direction, speed) ==
  IF direction = 1 THEN HIGH ELSE LOW

\* the plus level with every direction other than 0 taken as forward
PlusLevelNonZero(direction, speed) ==
  IF speed <= 0 THEN LOW
  ELSE IF direction # 0 THEN HIGH ELSE LOW

\* level of the digitalWrite(plusPin, ...) the call executes
PlusLevel(direction, speed) ==
  IF speed <= 0 THEN LOW
  ELSE IF direction = 1 THEN HIGH ELSE LOW

\* the minus level with only direction 0 taken as reverse
MinusLevelZeroOnly(direction, speed) ==
  IF speed <= 0 THEN LOW
  ELSE IF direction = 0 THEN HIGH ELSE LOW

\* level of the digitalWrite(minusPin, ...) the call executes
MinusLevel(direction, speed) ==
  IF speed <= 0 THEN LOW
  ELSE IF direction = 1 THEN LOW ELSE HIGH

\* value of the analogWrite(enPin, ...) the call executes
EnableDuty(speed) ==
  IF speed <= 0 THEN 0 ELSE Constrain(speed, 0, PwmMax)

(***************************************************************************)
(* Bounds of the environment.                                              *)
(***************************************************************************)
\* most tokens the host puts after the tag
MaxTokens == 11

\* the host's frames are rotations 0..MaxRot of the pair cycle
MaxRot == 2

\* most characters at the end of a line that the wire may hold back
MaxTail == 2

\* lines the UART transmit buffer holds before Serial.println blocks
MaxTx == 1

(***************************************************************************)
(* What the host sends.                                                    *)
(***************************************************************************)
\* (direction, speed) pairs as the host writes them
Pairs ==
  << << <<"1">>,      <<"2", "0", "0">> >>,
     << <<"0">>,      <<"1", "5", "0">> >>,
     << <<"1">>,      <<"0">> >>,
     << <<"2">>,      <<"3", "0", "0">> >>,
     << <<"-", "1">>, <<"2", "5", "5">> >>,
     << <<"1">>,      <<"-", "5">> >>,
     << <<"1">>,      <<"2", "5", "6">> >> >>

\* token j (0-based) of the frame with rotation rot: channel j \div 2 gets
\* pair (j \div 2 + rot) of the cycle, so the channels of one frame differ
HostToken(rot, j) == Pairs[(((j \div 2) + rot) % Len(Pairs)) + 1][(j % 2) + 1]

RECURSIVE JoinTokens(_, _, _)
JoinTokens(rot, j, n) ==
  IF j >= n THEN <<>>
  ELSE (IF j = 0 THEN <<>> ELSE <<",">>) \o HostToken(rot, j) \o JoinTokens(rot, j + 1, n)

\* what precedes the first comma, and what follows the last token
Decor ==
  { << <<"M">>, <<>> >>,
    << <<"M">>, <<CR>> >>,
    << <<SP, "M">>, <<>> >>,
    << <<"X">>, <<>> >> }

HostLine(dec, rot, n) == dec[1] \o <<",">> \o JoinTokens(rot, 0, n) \o dec[2]

\* lines that are not integer lists: a speed that is digits followed by a
\* letter and a speed that is a letter; 10 fields of which one is empty; 11
\* fields of which one is empty
OddLines ==
  << <<"M", ",", "1", ",", "2", "0", "0", "x", ",", "0", ",", "1", "5", "0", ",",
       "1", ",", "x">> \o JoinTokens(0, 6, 10),
     <<"M", ",", "1", ",", "2", "0", "0", ",", ",", "1", "5", "0">> \o JoinTokens(0, 4, 10),
     <<"M", ",", "1", ",", "2", "0", "0", ",", ",", "0", ",", "1", "5", "0">> \o JoinTokens(0, 4, 10) >>

ErrMsg == "Error: Invalid M command format"

(***************************************************************************)
(* State.                                                                  *)
(***************************************************************************)
VARIABLES
  pin,     \* level of every output pin; the PWM duty for the enable pins
  rx,      \* characters in the serial receive buffer
  wire,    \* characters the host has sent that have not arrived yet
  tx,      \* lines printed that the UART has not transmitted yet
  pc,      \* where loop() is: "poll", "read", "error", "plus", "minus", "enable"
  line,    \* String line of loop()
  values,  \* int values[], the entries filled so far
  call,    \* which of the six setMotor calls is executing, 0 outside them
  frame    \* history: the values of the last line read that had the tag
           \* and exactly 10 fields, <<>> before the first one

vars == <<pin, rx, wire, tx, pc, line, values, call, frame>>

idx == Len(values)

\* the arguments of the executing setMotor call
direction == values[Calls[call].dirIdx + 1]
speed     == values[Calls[call].spdIdx + 1]

\* The comma separated fields after the tag of a trimmed, tagged line, empty
\* ones included; a line that ends with its tag has none.
RECURSIVE SplitAt(_, _)
SplitAt(s, cur) ==
  IF s = <<>> THEN <<cur>>
  ELSE IF Head(s) = "," THEN <<cur>> \o SplitAt(Tail(s), <<>>)
  ELSE SplitAt(Tail(s), Append(cur, Head(s)))

Fields(ln) == IF Len(ln) <= 2 THEN <<>> ELSE SplitAt(SubSeq(ln, 3, Len(ln)), <<>>)

\* a frame in the sense of the protocol: the tag and exactly 10 tokens
IsFrameFields(flds) ==
  /\ Len(flds) = NumValues
  /\ \A k \in 1..NumValues : flds[k] # <<>>

IsFrame(ln) == \E flds \in {Fields(ln)} : IsFrameFields(flds)

\* setup(): every pin is an output at LOW
Init ==
  /\ pin = [p \in PinSet |-> LOW]
  /\ rx = <<>>
  /\ wire = <<>>
  /\ tx = <<>>
  /\ pc = "poll"
  /\ line = <<>>
  /\ values = <<>>
  /\ call = 0
  /\ frame = <<>>

(***************************************************************************)
(* Environment.                                                            *)
(***************************************************************************)
\* The host writes one line.  It writes the next one when the line has been
\* taken and the loop polls again: a line sent earlier than that waits in the
\* receive buffer, which the loop does not look at before its next poll.
HostSend(dec, rot, n) ==
  /\ pc = "poll"
  /\ wire = <<>>
  /\ rx = <<>>
  /\ wire' = Append(HostLine(dec, rot, n), NL)
  /\ UNCHANGED <<pin, rx, tx, pc, line, values, call, frame>>

\* the host writes one of the lines that are not integer lists
HostSendOdd(k) ==
  /\ pc = "poll"
  /\ wire = <<>>
  /\ rx = <<>>
  /\ wire' = Append(OddLines[k], NL)
  /\ UNCHANGED <<pin, rx, tx, pc, line, values, call, frame>>

\* the characters on the wire arrive, all of them or all but the last t
Arrive(t) ==
  /\ wire # <<>>
  /\ t < Len(wire)
  /\ rx' = rx \o SubSeq(wire, 1, Len(wire) - t)
  /\ wire' = SubSeq(wire, Len(wire) - t + 1, Len(wire))
  /\ UNCHANGED <<pin, tx, pc, line, values, call, frame>>

\* the UART transmits one printed line
TxDrain ==
  /\ tx # <<>>
  /\ tx' = Tail(tx)
  /\ UNCHANGED <<pin, rx, wire, pc, line, values, call, frame>>

(***************************************************************************)
(* loop()                                                                  *)
(***************************************************************************)
\* lines 43..44: one available line is read.  An iteration with nothing
\* available changes nothing and is a stuttering step.
ReadLine ==
  /\ pc = "poll"
  /\ rx # <<>>
  /\ line' = ReadStringUntil(rx)
  /\ rx' = AfterRead(rx)
  /\ pc' = "read"
  /\ UNCHANGED <<pin, wire, tx, values, call, frame>>

\* lines 45..59: the line is trimmed, filtered on its tag and split
ParseLine ==
  /\ pc = "read"
  /\ \E ln \in {Trim(line)} :
       IF ~StartsWithTag(ln)
         THEN /\ pc' = "poll"
              /\ line' = <<>>
              /\ UNCHANGED <<values, call, frame>>
         ELSE \E vals \in {ParseValues(ln)}, flds \in {Fields(ln)} :
              /\ line' = ln
              /\ values' = vals
              /\ IF Len(vals) = NumValues
                   THEN pc' = "plus" /\ call' = 1
                   ELSE pc' = "error" /\ call' = 0
              /\ frame' = IF IsFrameFields(flds)
                            THEN [k \in 1..NumValues |-> Atoi(flds[k])]
                            ELSE frame
  /\ UNCHANGED <<pin, rx, wire, tx>>

\* the error branch that prints and never returns
PrintErrorHalts ==
  /\ pc = "error"
  /\ Len(tx) < MaxTx
  /\ tx' = Append(tx, ErrMsg)
  /\ UNCHANGED <<pin, rx, wire, pc, line, values, call, frame>>

\* line 68, and the return of loop()
PrintError ==
  /\ pc = "error"
  /\ Len(tx) < MaxTx
  /\ tx' = Append(tx, ErrMsg)
  /\ pc' = "poll"
  /\ line' = <<>>
  /\ values' = <<>>
  /\ UNCHANGED <<pin, rx, wire, call, frame>>

\* lines 84, 90, 93
WritePlus ==
  /\ pc = "plus"
  /\ pin' = [pin EXCEPT ![Calls[call].plusPin] = PlusLevel(direction, speed)]
  /\ pc' = "minus"
  /\ UNCHANGED <<rx, wire, tx, line, values, call, frame>>

\* the second write of a call raising the enable line where the minus line
\* should be written
WriteMinusRaisesEnable ==
  /\ pc = "minus"
  /\ pin' = [pin EXCEPT ![Calls[call].enPin] = EnableDuty(speed)]
  /\ pc' = "enable"
  /\ UNCHANGED <<rx, wire, tx, line, values, call, frame>>

\* lines 85, 91, 94
WriteMinus ==
  /\ pc = "minus"
  /\ pin' = [pin EXCEPT ![Calls[call].minusPin] = MinusLevel(direction, speed)]
  /\ pc' = "enable"
  /\ UNCHANGED <<rx, wire, tx, line, values, call, frame>>

\* the last pin write followed by an acknowledgment line after the sixth call
WriteEnableAck ==
  /\ pc = "enable"
  /\ pin' = [pin EXCEPT ![Calls[call].enPin] = EnableDuty(speed)]
  /\ IF call < NumCalls
       THEN /\ call' = call + 1
            /\ pc' = "plus"
            /\ UNCHANGED <<line, values, tx>>
       ELSE /\ Len(tx) < MaxTx
            /\ tx' = Append(tx, "OK")
            /\ call' = 0
            /\ pc' = "poll"
            /\ line' = <<>>
            /\ values' = <<>>
  /\ UNCHANGED <<rx, wire, frame>>

\* lines 86, 96; then the next call of lines 61..66, or the return of loop()
WriteEnable ==
  /\ pc = "enable"
  /\ pin' = [pin EXCEPT ![Calls[call].enPin] = EnableDuty(speed)]
  /\ IF call < NumCalls
       THEN /\ call' = call + 1
            /\ pc' = "plus"
            /\ UNCHANGED <<line, values>>
       ELSE /\ call' = 0
            /\ pc' = "poll"
            /\ line' = <<>>
            /\ values' = <<>>
  /\ UNCHANGED <<rx, wire, tx, frame>>

Firmware == ReadLine \/ ParseLine \/ PrintError \/ WritePlus \/ WriteMinus \/ WriteEnable

Next ==
  \/ \E dec \in Decor, rot \in 0..MaxRot, n \in 0..MaxTokens : HostSend(dec, rot, n)
  \/ \E k \in 1..Len(OddLines) : HostSendOdd(k)
  \/ \E t \in 0..MaxTail : Arrive(t)
  \/ TxDrain
  \/ ReadLine
  \/ ParseLine
  \/ PrintError
  \/ WritePlus
  \/ WriteMinus
  \/ WriteEnable

Spec == Init /\ [][Next]_vars

TypeOK ==
  /\ pin \in [PinSet -> 0..PwmMax]
  /\ pc \in {"poll", "read", "error", "plus", "minus", "enable"}
  /\ call \in 0..NumCalls

(***************************************************************************)
(* Progress.  The loop runs for ever, the wire delivers and the UART       *)
(* transmits.  At most one step of the firmware is enabled at a time and   *)
(* it stays enabled until it is taken.  The host sends the frames of       *)
(* rotation 0 only: the values of a frame do not decide whether the loop   *)
(* goes on.                                                                *)
(***************************************************************************)
Environment == TxDrain \/ \E t \in 0..MaxTail : Arrive(t)

LiveNext ==
  \/ \E dec \in Decor, n \in 0..MaxTokens : HostSend(dec, 0, n)
  \/ \E t \in 0..MaxTail : Arrive(t)
  \/ TxDrain
  \/ ReadLine
  \/ ParseLine
  \/ PrintError
  \/ WritePlus
  \/ WriteMinus
  \/ WriteEnable

SpecLive ==
  /\ Init
  /\ [][LiveNext]_vars
  /\ WF_vars(Firmware)
  /\ WF_vars(Environment)

(***************************************************************************)
(* Vocabulary of the properties.                                           *)
(***************************************************************************)
MotorPcs == {"plus", "minus", "enable"}

PlusPinOf(c)  == Calls[c].plusPin
MinusPinOf(c) == Calls[c].minusPin
EnPinOf(c)    == Calls[c].enPin

\* the three lines of channel c, in the order plus, minus, enable
Lines(c) == <<pin[PlusPinOf(c)], pin[MinusPinOf(c)], pin[EnPinOf(c)]>>

\* the state of a channel that the protocol gives a (direction, speed) pair
Stopped == <<LOW, LOW, 0>>

Commanded(d, s) ==
  IF s <= 0 THEN Stopped
  ELSE IF d = 1 THEN <<HIGH, LOW, IF s > 255 THEN 255 ELSE s>>
  ELSE <<LOW, HIGH, IF s > 255 THEN 255 ELSE s>>

\* the characters a read takes from the buffer, without the terminator
RawLine(buf) ==
  LET ends == { i \in 1..Len(buf) : buf[i] = NL } IN
  IF ends = {} THEN buf
  ELSE SubSeq(buf, 1, (CHOOSE i \in ends : \A j \in ends : i <= j) - 1)

\* a string without its leading and trailing white space
Stripped(s) ==
  LET ink == { i \in 1..Len(s) : s[i] \notin {SP, CR, NL, "\t"} } IN
  IF ink = {} THEN <<>>
  ELSE SubSeq(s, CHOOSE i \in ink : \A j \in ink : i <= j,
                 CHOOSE i \in ink : \A j \in ink : i >= j)

BeginsWithTag(s) == Len(s) >= 2 /\ SubSeq(s, 1, 2) = <<"M", ",">>

\* an optional sign and at least one digit, nothing else
IsIntToken(tok) ==
  LET body == IF tok # <<>> /\ tok[1] \in {"-", "+"} THEN Tail(tok) ELSE tok IN
  body # <<>> /\ \A i \in 1..Len(body) : IsDigit(body[i])

\* the line being processed is tagged and has exactly 10 integer tokens
IntFrame(ln) == IsFrame(ln) /\ \A k \in 1..NumValues : IsIntToken(Fields(ln)[k])

(***************************************************************************)
(* C1: at every instant, each pin write of setMotor being a step, no       *)
(* channel has its plus line and its minus line HIGH together.             *)
(***************************************************************************)
C1_NeverBothHigh ==
  \A c \in 1..NumCalls : ~(pin[PlusPinOf(c)] = HIGH /\ pin[MinusPinOf(c)] = HIGH)

(***************************************************************************)
(* C2: when setMotor returns, the direction lines of its channel are LOW,  *)
(* LOW for speed <= 0; HIGH, LOW for speed > 0 and direction 1; LOW, HIGH  *)
(* for speed > 0 and any other direction.                                  *)
(***************************************************************************)
C2_DirectionLines ==
  [][ (pc = "enable" /\ pc' # "enable") =>
        /\ speed <= 0 =>
             pin'[PlusPinOf(call)] = LOW /\ pin'[MinusPinOf(call)] = LOW
        /\ (speed > 0 /\ direction = 1) =>
             pin'[PlusPinOf(call)] = HIGH /\ pin'[MinusPinOf(call)] = LOW
        /\ (speed > 0 /\ direction # 1) =>
             pin'[PlusPinOf(call)] = LOW /\ pin'[MinusPinOf(call)] = HIGH ]_vars

\* the call for the front-right channel has returned from direction 2 at
\* speed 300 and left the channel in reverse
C2_Witness ==
  /\ pc = "plus" /\ call = 3
  /\ values[3] = 2 /\ values[4] = 300
  /\ pin[PlusPinOf(2)] = LOW /\ pin[MinusPinOf(2)] = HIGH

(***************************************************************************)
(* C3: when setMotor returns, the enable value of its channel is 0 for     *)
(* speed <= 0, speed for 0 < speed <= 255 and 255 for speed > 255; the     *)
(* enable value of every channel is within 0..255 in every state.          *)
(***************************************************************************)
C3_EnableClamped ==
  /\ \A c \in 1..NumCalls : pin[EnPinOf(c)] \in 0..255
  /\ [][ /\ \A c \in 1..NumCalls : pin'[EnPinOf(c)] \in 0..255
         /\ (pc = "enable" /\ pc' # "enable") =>
              pin'[EnPinOf(call)] =
                IF speed <= 0 THEN 0 ELSE IF speed <= 255 THEN speed ELSE 255 ]_vars

\* the call for the front-right channel has returned from speed 300 with the
\* enable line at 255
C3_Witness ==
  /\ pc = "plus" /\ call = 3
  /\ values[4] = 300
  /\ pin[EnPinOf(2)] = 255

(***************************************************************************)
(* C4: while a tagged line with exactly 10 integer tokens v[0..9] is       *)
(* processed, channel i of [front-left, front-right, rear-left,            *)
(* rear-right, vertical] is driven with direction v[2i] and speed v[2i+1]  *)
(* and no pin of another channel is written during its call.               *)
(***************************************************************************)
C4_PositionalMapping ==
  [][ (pc \in MotorPcs /\ pc' # pc /\ IntFrame(line)) =>
        /\ \A c \in 1..NumCalls : c # call =>
             /\ pin'[PlusPinOf(c)] = pin[PlusPinOf(c)]
             /\ pin'[MinusPinOf(c)] = pin[MinusPinOf(c)]
             /\ pin'[EnPinOf(c)] = pin[EnPinOf(c)]
        /\ (pc = "enable" /\ call <= 5) =>
             <<pin'[PlusPinOf(call)], pin'[MinusPinOf(call)], pin'[EnPinOf(call)]>>
               = Commanded(Atoi(Fields(line)[2 * (call - 1) + 1]),
                           Atoi(Fields(line)[2 * (call - 1) + 2])) ]_vars

\* the frame M,1,200,0,150,1,0,2,300,-1,255 is being dispatched: the two
\* front channels hold their own pairs and the third call is executing
C4_Witness ==
  /\ pc = "minus" /\ call = 3
  /\ IntFrame(line)
  /\ Fields(line)[1] = <<"1">> /\ Fields(line)[3] = <<"0">>
  /\ Lines(1) = <<HIGH, LOW, 200>>
  /\ Lines(2) = <<LOW, HIGH, 150>>

(***************************************************************************)
(* C5: a tagged line with more than 10 tokens is flagged as invalid: once  *)
(* it is split the loop is in its error branch, and its first 10 tokens    *)
(* are not applied as a frame.                                             *)
(***************************************************************************)
C5_ExtraTokensRejected ==
  (pc \notin {"poll", "read"} /\ Len(Fields(line)) > NumValues) => pc = "error"

(***************************************************************************)
(* C6: a tagged line with fewer than 10 tokens, the bare tag included,     *)
(* makes the firmware print the error line exactly once and changes no     *)
(* pin.                                                                    *)
(***************************************************************************)
ShortLine(ln) == BeginsWithTag(ln) /\ Len(Fields(ln)) < NumValues

C6_ShortLineRejected ==
  [][ /\ (pc = "read" /\ pc' # pc /\ ShortLine(Stripped(line))) =>
           (pc' = "error" /\ pin' = pin /\ tx' = tx)
      /\ (pc # "read" /\ ShortLine(line)) =>
           /\ pc = "error"
           /\ pin' = pin
           /\ \/ pc' = "error" /\ line' = line /\ Len(tx') <= Len(tx)
              \/ pc' = "poll" /\ line' = <<>> /\ tx' = Append(tx, ErrMsg) ]_vars

\* the 4 token line of a frame has been read while the front-left channel
\* is driving, and the error line is about to be printed
C6_Witness ==
  /\ pc = "error"
  /\ Len(Fields(line)) = 4
  /\ tx = <<>>
  /\ Lines(1) = <<HIGH, LOW, 200>>

(***************************************************************************)
(* C7: whenever the loop is about to poll, all six channels are in the     *)
(* state the most recent frame (tag and exactly 10 tokens) determines, all *)
(* stopped before the first frame.                                         *)
(***************************************************************************)
C7_PollStateIsLastFrame ==
  pc = "poll" =>
    \A c \in 1..NumCalls :
      Lines(c) = IF frame = <<>> THEN Stopped
                 ELSE Commanded(frame[2 * (IF c = 6 THEN 5 ELSE c) - 1],
                                frame[2 * (IF c = 6 THEN 5 ELSE c)])

(***************************************************************************)
(* C8: between frames the three outputs of the mirrored-vertical channel   *)
(* equal the three outputs of the vertical channel.                        *)
(***************************************************************************)
C8_MirrorEqualsVertical == pc = "poll" => Lines(6) = Lines(5)

\* both vertical channels drive forward at 255 between two frames
C8_Witness ==
  /\ pc = "poll"
  /\ Lines(5) = <<HIGH, LOW, 255>>
  /\ Lines(6) = <<HIGH, LOW, 255>>
  /\ Lines(4) # Lines(5)

(***************************************************************************)
(* C9: a line that, stripped of leading and trailing white space, does not *)
(* begin with the tag is dropped: reading it changes no pin, prints        *)
(* nothing and leaves the loop polling.                                    *)
(***************************************************************************)
C9_UntaggedDropped ==
  /\ [][ (pc = "poll" /\ pc' # pc) =>
           (line' = RawLine(rx) /\ pin' = pin /\ tx' = tx) ]_vars
  /\ [][ (pc = "read" /\ ~BeginsWithTag(Stripped(line))) =>
           /\ pin' = pin
           /\ Len(tx') <= Len(tx)
           /\ pc' \in {"read", "poll"} ]_vars

\* a line of 10 fields that begins with X has been read while the front-left
\* channel is driving and nothing is left to transmit
C9_Witness ==
  /\ pc = "read"
  /\ line # <<>> /\ Head(line) = "X" /\ Len(Fields(Stripped(line))) = NumValues
  /\ tx = <<>>
  /\ Lines(1) = <<HIGH, LOW, 200>>

(***************************************************************************)
(* C10: the firmware never halts: the loop always returns to polling,      *)
(* every line that arrives is eventually consumed, and a frame that has    *)
(* arrived is eventually applied.                                          *)
(***************************************************************************)
FrameApplied(v) ==
  /\ pc = "poll"
  /\ \A c \in 1..NumCalls :
       Lines(c) = Commanded(v[2 * (IF c = 6 THEN 5 ELSE c) - 1],
                            v[2 * (IF c = 6 THEN 5 ELSE c)])

C10_NeverHalts ==
  /\ (pc # "poll" \/ rx # <<>>) ~> (pc = "poll" /\ rx = <<>>)
  /\ (pc = "read" /\ BeginsWithTag(Stripped(line)) /\ IsFrame(Stripped(line)))
       ~> (pc = "poll" /\ rx = <<>> /\ frame # <<>> /\ FrameApplied(frame))

\* the loop polls again after a frame was applied and a later line was
\* rejected with the error line
C10_Witness ==
  /\ pc = "poll"
  /\ rx = <<>> /\ wire = <<>>
  /\ tx = <<ErrMsg>>
  /\ Lines(1) = <<HIGH, LOW, 200>>
  /\ Lines(2) = <<LOW, HIGH, 150>>

(***************************************************************************)
(* C11: a setMotor call with speed 0 on a channel that is stopped changes  *)
(* no line at any of its pin writes, and a setMotor call with speed 0      *)
(* leaves its channel stopped (plus LOW, minus LOW, enable 0), so that a   *)
(* second call in a row leaves what the first one left.                    *)
(***************************************************************************)
C11_StopIdempotent ==
  [][ /\ (pc \in MotorPcs /\ pc' # pc /\ speed = 0 /\ Lines(call) = Stopped) =>
           pin' = pin
      /\ (pc = "enable" /\ pc' # pc /\ speed = 0) =>
           <<pin'[PlusPinOf(call)], pin'[MinusPinOf(call)], pin'[EnPinOf(call)]>>
             = Stopped ]_vars

\* the rear-left channel, stopped by the frame M,1,200,0,150,1,0,2,300,-1,255
\* whose vertical pair is still on the pins, is being given speed 0 again
C11_Witness ==
  /\ pc = "enable" /\ call = 3
  /\ speed = 0
  /\ Lines(3) = Stopped
  /\ Lines(5) = <<LOW, HIGH, 255>>
  /\ Lines(1) = <<HIGH, LOW, 200>>

(***************************************************************************)
(* C12: nothing is added to the serial output while a frame (tag and       *)
(* exactly 10 tokens) is split and applied; the only text ever added is    *)
(* the arity error line, added once, by the error branch, for a tagged     *)
(* line that is no frame.                                                  *)
(***************************************************************************)
C12_NoAcknowledgment ==
  [][ /\ (pc = "read" /\ BeginsWithTag(Stripped(line)) /\ IsFrame(Stripped(line))) =>
           (Len(tx') <= Len(tx) /\ pc' \in {"read", "plus"})
      /\ pc \in MotorPcs => (Len(tx') <= Len(tx) /\ pc' # "error")
      /\ Len(tx') > Len(tx) =>
           /\ pc = "error" /\ pc' = "poll"
           /\ tx' = Append(tx, ErrMsg)
           /\ BeginsWithTag(line) /\ ~IsFrame(line) ]_vars

\* the frame M,1,200,0,150,1,0,2,300,-1,255 has been applied as the first
\* line after boot up to its last pin write and the serial output is empty
C12_Witness ==
  /\ pc = "enable" /\ call = NumCalls
  /\ IntFrame(line)
  /\ tx = <<>>
  /\ Lines(1) = <<HIGH, LOW, 200>>
  /\ Lines(5) = <<LOW, HIGH, 255>>
  /\ Lines(6) = <<LOW, HIGH, 0>>

(***************************************************************************)
(* C13: while a setMotor call that drives (speed > 0) executes on a        *)
(* channel whose enable line is above zero, the direction lines of that    *)
(* channel are the old or the new direction in every state: never both     *)
(* LOW and never both HIGH.                                                *)
(***************************************************************************)
C13_ReversalHasNoGap ==
  (pc \in MotorPcs /\ speed > 0 /\ pin[EnPinOf(call)] > 0) =>
    (pin[PlusPinOf(call)] = HIGH) # (pin[MinusPinOf(call)] = HIGH)

(***************************************************************************)
(* C14: while a setMotor call that stops (speed <= 0) executes, there is   *)
(* no state in which the direction lines of its channel have been cleared  *)
(* and its enable line still holds a duty above zero.                      *)
(***************************************************************************)
C14_StopIsAtomic ==
  (pc \in MotorPcs /\ speed <= 0 /\ pin[EnPinOf(call)] > 0) =>
    ~(pin[PlusPinOf(call)] = LOW /\ pin[MinusPinOf(call)] = LOW)

(***************************************************************************)
(* C15: an enable line goes from 0 to a value above zero only at the last  *)
(* pin write of the setMotor call of its channel, when both direction      *)
(* lines of the channel already show the commanded direction, exactly one  *)
(* of them HIGH; the first two writes of a call leave the enable line      *)
(* alone and the enable write ends the call.                               *)
(***************************************************************************)
C15_DirectionBeforeEnable ==
  [][ /\ \A c \in 1..NumCalls :
           (pin[EnPinOf(c)] = 0 /\ pin'[EnPinOf(c)] > 0) =>
             /\ pc = "enable" /\ call = c /\ speed > 0
             /\ pin[PlusPinOf(c)] = (IF direction = 1 THEN HIGH ELSE LOW)
             /\ pin[MinusPinOf(c)] = (IF direction = 1 THEN LOW ELSE HIGH)
             /\ pin'[PlusPinOf(c)] = pin[PlusPinOf(c)]
             /\ pin'[MinusPinOf(c)] = pin[MinusPinOf(c)]
      /\ (pc \in {"plus", "minus"} /\ pc' # pc) =>
           (pin'[EnPinOf(call)] = pin[EnPinOf(call)] /\ call' = call)
      /\ (pc = "enable" /\ pc' # pc) =>
           /\ call' # call
           /\ \A p \in PinSet : p # EnPinOf(call) => pin'[p] = pin[p] ]_vars

\* the first frame after boot has raised the enable line of the front-left
\* channel from 0 to 200 with its direction lines at forward, and of no
\* other channel yet
C15_Witness ==
  /\ pc = "plus" /\ call = 2
  /\ Lines(1) = <<HIGH, LOW, 200>>
  /\ \A c \in 2..NumCalls : Lines(c) = Stopped

(***************************************************************************)
(* C16: every channel is STOPPED at boot; whenever no setMotor call is in  *)
(* progress every channel is in exactly one of STOPPED (LOW, LOW, 0),      *)
(* DRIVING_FORWARD (HIGH, LOW, enable in 1..255) and DRIVING_REVERSE (LOW, *)
(* HIGH, enable in 1..255); and a setMotor call takes its channel, from    *)
(* whichever state, to the state its pair names, so that one frame leads   *)
(* from each state to each other.                                          *)
(***************************************************************************)
ChannelState(l) ==
  IF l = Stopped THEN "STOPPED"
  ELSE IF l[1] = HIGH /\ l[2] = LOW /\ l[3] \in 1..255 THEN "DRIVING_FORWARD"
  ELSE IF l[1] = LOW /\ l[2] = HIGH /\ l[3] \in 1..255 THEN "DRIVING_REVERSE"
  ELSE "NONE"

\* the state a (direction, speed) pair asks for
Target(d, s) ==
  IF s <= 0 THEN "STOPPED" ELSE IF d = 1 THEN "DRIVING_FORWARD" ELSE "DRIVING_REVERSE"

C16_ChannelStateMachine ==
  /\ \A c \in 1..NumCalls : Lines(c) = Stopped
  /\ [](pc \notin MotorPcs => \A c \in 1..NumCalls : ChannelState(Lines(c)) # "NONE")
  /\ [][ (pc = "enable" /\ pc' # pc) =>
           ChannelState(<<pin'[PlusPinOf(call)], pin'[MinusPinOf(call)],
                          pin'[EnPinOf(call)]>>) = Target(direction, speed) ]_vars

\* the frame M,0,150,1,0,2,300,-1,255,1,-5 is about to be applied to the
\* state the frame M,1,200,0,150,1,0,2,300,-1,255 left: front-left goes from
\* forward to reverse, front-right from reverse to stopped, rear-left from
\* stopped to reverse
C16_Witness ==
  /\ pc = "plus" /\ call = 1
  /\ IntFrame(line)
  /\ ChannelState(Lines(1)) = "DRIVING_FORWARD" /\ Target(values[1], values[2]) = "DRIVING_REVERSE"
  /\ ChannelState(Lines(2)) = "DRIVING_REVERSE" /\ Target(values[3], values[4]) = "STOPPED"
  /\ ChannelState(Lines(3)) = "STOPPED" /\ Target(values[5], values[6]) = "DRIVING_REVERSE"

(***************************************************************************)
(* C17: a tagged line with exactly 10 tokens is accepted without an error  *)
(* whatever its tokens are, and every token that is not an integer (an     *)
(* optional sign and digits, nothing else) gets the value 0.               *)
(***************************************************************************)
C17_NonIntegerIsZero ==
  [][ (pc = "read" /\ pc' # pc
         /\ BeginsWithTag(Stripped(line)) /\ IsFrame(Stripped(line))) =>
        /\ pc' = "plus"
        /\ tx' = tx
        /\ \A k \in 1..NumValues :
             ~IsIntToken(Fields(Stripped(line))[k]) => values'[k] = 0 ]_vars

(***************************************************************************)
(* C18: the k-th comma separated field after the tag becomes frame value   *)
(* k, an empty field counting as a token of value 0: a tagged line with    *)
(* exactly 10 fields is applied, and every line that is applied has given  *)
(* each of the values 1..10 the integer of the field at that position.     *)
(***************************************************************************)
FieldValue(f) == IF f = <<>> THEN 0 ELSE Atoi(f)

C18_FieldsArePositional ==
  [][ (pc = "read" /\ pc' # pc /\ BeginsWithTag(Stripped(line))) =>
        /\ Len(Fields(Stripped(line))) = NumValues => pc' = "plus"
        /\ pc' = "plus" =>
             /\ Len(Fields(Stripped(line))) >= NumValues
             /\ \A k \in 1..NumValues :
                  values'[k] = FieldValue(Fields(Stripped(line))[k]) ]_vars

(***************************************************************************)
(* C19: every line that is applied as a frame has the fields of the whole  *)
(* line the host sent up to its terminator, the part of it that had not    *)
(* arrived when the read returned included; and what is left of a line     *)
(* after a read that returned early is not a line that can be applied.     *)
(***************************************************************************)
\* the line the host sent, of which the read has returned line: the host
\* sends one line at a time, so the rest of it is what is still in the
\* receive buffer and on the wire
SentLine == line \o RawLine(rx \o wire)

C19_OnlyCompleteLinesApplied ==
  [][ /\ (pc = "read" /\ pc' = "plus") =>
           Fields(Stripped(line)) = Fields(Stripped(SentLine))
      /\ (pc = "read" /\ RawLine(rx \o wire) # <<>>) =>
           ~(/\ BeginsWithTag(Stripped(RawLine(rx \o wire)))
             /\ Len(Fields(Stripped(RawLine(rx \o wire)))) >= NumValues) ]_vars

====
